---- MODULE Spec2Model ----
(***************************************************************************)
(* Model of the longcat-web-api gateway: the conversation identity         *)
(* resolver (package conversation, ConversationManager), the request       *)
(* handler that resolves a session for each request (UnifiedHandler), the  *)
(* cumulative stream translator (StreamProcessor), and the response        *)
(* pipeline of a request: translator, relay (ConvertResponse) and the      *)
(* streaming and non-streaming handlers of the OpenAI and Claude formats.  *)
(*                                                                         *)
(* Conventions                                                             *)
(*  - A Go string is a TLA+ string; a text that the code slices by byte    *)
(*    offsets (the backend's cumulative content) is a sequence of one-     *)
(*    character strings.                                                   *)
(*  - sha256 is taken to be injective: the hex digest of s is written      *)
(*    "<s>".  Digests are bracketed, so joining them with "-" loses        *)
(*    nothing, as with the fixed-width hex digests of the code.            *)
(*  - *ConversationEntry pointers are indices into the sequence `entries`  *)
(*    (the heap of entries ever allocated); Nil is the nil pointer.        *)
(*  - time.Now() is the variable `now`, in hours.                          *)
(***************************************************************************)
EXTENDS Integers, Sequences, FiniteSets, TLC

VARIABLES
    entries,        \* heap of ConversationEntry objects, by address
    conversations,  \* cm.conversations: fingerprint -> address
    messageIndex,   \* cm.messageIndex: message hash -> sequence of addresses
    now,            \* the wall clock, hours since the manager was created
    ticks,          \* number of clock advances taken (bounds the clock)
    lastOp,         \* the last call made and what it returned
    sessions,       \* number of backend sessions CreateSession has created
    history,        \* the turn history the client holds (ServeHTTP harness)
    used,           \* session ids the requests were resolved to, in order
    reqs,           \* the requests running ServeHTTP at the same time: the
                    \* position and the local variables of each
    stream,         \* ProcessStream's stream argument
    p,              \* the StreamProcessor
    tpc,            \* the ProcessStream goroutine: "scan", "done" or "error"
    rawChunks,      \* the chunks sent on ProcessStream's chunks channel, in order
    nread,          \* number of backend events parsed so far
    prevContent,    \* cumulative text of the last parsed event
    cumulative,     \* no parsed event so far carried an explicit delta, and
                    \* each one's text extends the text of the one before
    format,         \* the API format of the request: "A" (OpenAI) or "B" (Claude)
    tokenInfo,      \* p.tokenInfo of the StreamProcessor
    lastTokens,     \* the last token usage an event marked as populated
    nrelayed,       \* number of rawChunks the ConvertResponse goroutine has received
    rpc,            \* the ConvertResponse goroutine: "run" or "returned"
    chunks,         \* ConvertResponse's buffered chunks channel
    errs,           \* ConvertResponse's buffered errs channel
    handler,        \* the local variables of the response handler
    hpc,            \* the handler: "run", "ok" (returned nil) or "err"
    written,        \* the frames the handler has written to the client, in order
    fpInputs,       \* two turn sequences handed to GenerateFingerprint
    fpOutputs       \* their fingerprints, the first sequence's computed twice

resolverVars == <<entries, conversations, messageIndex, now, ticks, lastOp>>
serveVars == <<sessions, history, used, reqs>>
translatorVars == <<stream, p, tpc, rawChunks, nread, prevContent, cumulative>>
pipelineVars == <<format, tokenInfo, lastTokens, nrelayed, rpc, chunks, errs, handler, hpc, written>>
fingerprintVars == <<fpInputs, fpOutputs>>
vars == <<entries, conversations, messageIndex, now, ticks, lastOp,
          sessions, history, used, reqs,
          stream, p, tpc, rawChunks, nread, prevContent, cumulative,
          format, tokenInfo, lastTokens, nrelayed, rpc, chunks, errs, handler, hpc, written,
          fpInputs, fpOutputs>>

----------------------------------------------------------------------------
(* Bounds of the model *)

MaxLen == 3
MaxNew == 2
MaxEntries == 2
MaxTicks == 1
MaxConcurrent == 2

(* Program constants *)

MaxAge == 24
TickerPeriod == 1

Nil == 0

----------------------------------------------------------------------------
(* types.Message and the inputs of the resolver harness *)

Message(role, content) == [Role |-> role, Content |-> content]

Messages == {Message("user", "a"), Message("assistant", "b")}

RECURSIVE SeqsUpTo(_, _)
SeqsUpTo(S, n) ==
    IF n = 0 THEN {<<>>}
    ELSE LET shorter == SeqsUpTo(S, n - 1)
         IN shorter \cup {Append(s, x) : s \in {t \in shorter : Len(t) = n - 1}, x \in S}

(* Turn sequences, stored or looked up *)
TurnSeqs == SeqsUpTo(Messages, MaxLen)

(* The turns one Register or Extend call passes *)
NewTurns == SeqsUpTo(Messages, MaxNew)

EmptyMap == [k \in {} |-> Nil]

MapPut(m, k, v) == [x \in (DOMAIN m) \cup {k} |-> IF x = k THEN v ELSE m[x]]

MapDelete(m, k) == [x \in (DOMAIN m) \ {k} |-> m[x]]

MapGet(m, k) == IF k \in DOMAIN m THEN m[k] ELSE <<>>

Range(f) == {f[x] : x \in DOMAIN f}

(* The orders in which a `for range` over a Go map with key set S may run. *)
RECURSIVE Orders(_)
Orders(S) ==
    IF S = {} THEN {<<>>}
    ELSE UNION {{<<k>> \o rest : rest \in Orders(S \ {k})} : k \in S}

----------------------------------------------------------------------------
(* Fingerprints *)

HexSha256(s) == "<" \o s \o ">"

hashMessage(msg) == HexSha256(msg.Role \o ":" \o msg.Content)

RECURSIVE Join(_, _)
Join(parts, sep) ==
    IF Len(parts) = 0 THEN ""
    ELSE IF Len(parts) = 1 THEN parts[1]
    ELSE parts[1] \o sep \o Join(Tail(parts), sep)

GenerateFingerprint(messages) ==
    IF Len(messages) = 0 THEN ""
    ELSE LET parts == [i \in 1..Len(messages) |-> hashMessage(messages[i])]
         IN HexSha256(Join(parts, "-"))

----------------------------------------------------------------------------
(* Lookup *)

messagesEqual(a, b) == a.Role = b.Role /\ a.Content = b.Content

(* hasExactPrefix with the length test off by one *)
hasExactPrefix_StrictlyLonger(messages, prefix) ==
    IF Len(messages) <= Len(prefix) THEN FALSE
    ELSE \A i \in 1..Len(prefix) : messagesEqual(messages[i], prefix[i])

hasExactPrefix(messages, prefix) ==
    IF Len(messages) < Len(prefix) THEN FALSE
    ELSE \A i \in 1..Len(prefix) : messagesEqual(messages[i], prefix[i])

(* order: the order in which the range over cm.conversations visits the keys *)
findConversationsWithPrefix(order, prefix) ==
    LET visited == [i \in 1..Len(order) |-> conversations[order[i]]]
        matchesPrefix(a) == hasExactPrefix(entries[a].Messages, prefix)
    IN SelectSeq(visited, matchesPrefix)

RECURSIVE latestFrom(_, _, _)
latestFrom(convs, i, lastedEntry) ==
    IF i > Len(convs) THEN lastedEntry
    ELSE latestFrom(convs, i + 1,
            IF entries[convs[i]].LastAccessed > entries[lastedEntry].LastAccessed
            THEN convs[i] ELSE lastedEntry)

(* disambiguateByLastOriginal falling back to the first candidate when no
   echo matches *)
disambiguateByLastOriginal_AnyCandidate(convs, newMessages) ==
    IF Len(newMessages) = 0 THEN Nil
    ELSE LET assistantMsg == newMessages[1]
             echoes(a) == /\ Len(entries[a].LastOriginal) > 0
                          /\ messagesEqual(entries[a].LastOriginal[1], assistantMsg)
             survivors == SelectSeq(convs, echoes)
         IN IF Len(survivors) = 0 THEN convs[1]
            ELSE latestFrom(convs, 1, survivors[1])

disambiguateByLastOriginal(convs, newMessages) ==
    IF Len(newMessages) = 0 THEN Nil
    ELSE LET assistantMsg == newMessages[1]
             echoes(a) == /\ Len(entries[a].LastOriginal) > 0
                          /\ messagesEqual(entries[a].LastOriginal[1], assistantMsg)
             survivors == SelectSeq(convs, echoes)
         IN IF Len(survivors) = 0 THEN Nil
            ELSE latestFrom(convs, 1, survivors[1])

(* FindConversation without the exact-match step *)
FindConversation_PrefixOnly(order, messages) ==
    IF Len(messages) < 2 THEN Nil
    ELSE LET prefix == SubSeq(messages, 1, Len(messages) - 2)
             newMessages == SubSeq(messages, Len(messages) - 1, Len(messages))
             matchingConversations == findConversationsWithPrefix(order, prefix)
         IN IF Len(matchingConversations) = 1 THEN matchingConversations[1]
            ELSE IF Len(matchingConversations) > 1
                 THEN disambiguateByLastOriginal(matchingConversations, newMessages)
                 ELSE Nil

(* FindConversation testing the length only after the exact-match step *)
FindConversation_LateGuard(order, messages) ==
    IF Len(messages) = 0 THEN Nil
    ELSE LET fingerprint == GenerateFingerprint(messages)
         IN IF fingerprint \in DOMAIN conversations THEN conversations[fingerprint]
            ELSE IF Len(messages) < 2 THEN Nil
            ELSE LET prefix == SubSeq(messages, 1, Len(messages) - 2)
                     newMessages == SubSeq(messages, Len(messages) - 1, Len(messages))
                     matchingConversations == findConversationsWithPrefix(order, prefix)
                 IN IF Len(matchingConversations) = 1 THEN matchingConversations[1]
                    ELSE IF Len(matchingConversations) > 1
                         THEN disambiguateByLastOriginal(matchingConversations, newMessages)
                         ELSE Nil

(* The entry FindConversation resolves to (Nil: not found). *)
FindConversation(order, messages) ==
    IF Len(messages) < 2 THEN Nil
    ELSE LET fingerprint == GenerateFingerprint(messages)
         IN IF fingerprint \in DOMAIN conversations THEN conversations[fingerprint]
            ELSE LET prefix == SubSeq(messages, 1, Len(messages) - 2)
                     newMessages == SubSeq(messages, Len(messages) - 1, Len(messages))
                     matchingConversations == findConversationsWithPrefix(order, prefix)
                 IN IF Len(matchingConversations) = 1 THEN matchingConversations[1]
                    ELSE IF Len(matchingConversations) > 1
                         THEN disambiguateByLastOriginal(matchingConversations, newMessages)
                         ELSE Nil

(* FindConversation stamps the entry it returns with time.Now(). *)
Touch(a) == IF a = Nil THEN entries ELSE [entries EXCEPT ![a].LastAccessed = now]

Call(op, messages, id, found) ==
    [op |-> op, messages |-> messages, id |-> id, found |-> found]

FindConversationOp(messages) ==
    \E order \in Orders(DOMAIN conversations) :
        LET a == FindConversation(order, messages)
        IN /\ entries' = Touch(a)
           /\ lastOp' = Call("Find", messages,
                             IF a = Nil THEN Nil ELSE entries[a].ConversationID,
                             a # Nil)
           /\ UNCHANGED <<conversations, messageIndex, now, ticks>>

----------------------------------------------------------------------------
(* Register *)

RECURSIVE indexAll(_, _, _)
indexAll(index, msgs, a) ==
    IF Len(msgs) = 0 THEN index
    ELSE LET msgHash == hashMessage(Head(msgs))
         IN indexAll(MapPut(index, msgHash, Append(MapGet(index, msgHash), a)),
                     Tail(msgs), a)

NewEntry(messages, conversationID) ==
    [ConversationID |-> conversationID, Messages |-> messages,
     LastOriginal |-> <<>>, LastAccessed |-> now]

SetConversation(messages, conversationID) ==
    LET a == Len(entries) + 1
        fingerprint == GenerateFingerprint(messages)
    IN /\ entries' = Append(entries, NewEntry(messages, conversationID))
       /\ conversations' = MapPut(conversations, fingerprint, a)
       /\ messageIndex' = indexAll(messageIndex, messages, a)

(* The session id registered is the one the backend has just allocated. *)
SetConversationOp(messages) ==
    /\ Len(entries) < MaxEntries
    /\ SetConversation(messages, Len(entries) + 1)
    /\ lastOp' = Call("Set", messages, Len(entries) + 1, FALSE)
    /\ UNCHANGED <<now, ticks>>

----------------------------------------------------------------------------
(* Extend *)

(* filterDuplicateMessages dropping nothing *)
filterDuplicateMessages_None(existing, new) == new

RECURSIVE filterDuplicateMessages(_, _)
filterDuplicateMessages(existing, new) ==
    IF Len(new) = 0 THEN <<>>
    ELSE LET newMsg == Head(new)
             found == \E i \in 1..Len(existing) : messagesEqual(newMsg, existing[i])
             rest == filterDuplicateMessages(existing, Tail(new))
         IN IF found THEN rest ELSE <<newMsg>> \o rest

(* The entries the search loop of UpdateConversation / UpdateLastOriginal can
   stop at: any entry of the table with the given id. *)
EntriesWithID(conversationID) ==
    {a \in Range(conversations) : entries[a].ConversationID = conversationID}

(* UpdateConversation indexing the given messages also when none is new *)
UpdateConversation_Reindex(existingEntry, newMessages) ==
    LET uniqueMessages == filterDuplicateMessages(entries[existingEntry].Messages, newMessages)
    IN IF Len(uniqueMessages) = 0
       THEN /\ entries' = [entries EXCEPT ![existingEntry].LastAccessed = now]
            /\ UNCHANGED conversations
            /\ messageIndex' = indexAll(messageIndex, newMessages, existingEntry)
       ELSE LET extendedMessages == entries[existingEntry].Messages \o uniqueMessages
                oldFingerprint == GenerateFingerprint(entries[existingEntry].Messages)
                newFingerprint == GenerateFingerprint(extendedMessages)
            IN /\ entries' = [entries EXCEPT ![existingEntry].Messages = extendedMessages,
                                             ![existingEntry].LastAccessed = now]
               /\ conversations' = MapPut(MapDelete(conversations, oldFingerprint),
                                          newFingerprint, existingEntry)
               /\ messageIndex' = indexAll(messageIndex, uniqueMessages, existingEntry)

(* UpdateConversation adding the new fingerprint without removing the old one *)
UpdateConversation_KeepOld(existingEntry, newMessages) ==
    LET uniqueMessages == filterDuplicateMessages(entries[existingEntry].Messages, newMessages)
    IN IF Len(uniqueMessages) = 0
       THEN /\ entries' = [entries EXCEPT ![existingEntry].LastAccessed = now]
            /\ UNCHANGED <<conversations, messageIndex>>
       ELSE LET extendedMessages == entries[existingEntry].Messages \o uniqueMessages
                newFingerprint == GenerateFingerprint(extendedMessages)
            IN /\ entries' = [entries EXCEPT ![existingEntry].Messages = extendedMessages,
                                             ![existingEntry].LastAccessed = now]
               /\ conversations' = MapPut(conversations, newFingerprint, existingEntry)
               /\ messageIndex' = indexAll(messageIndex, uniqueMessages, existingEntry)

(* UpdateConversation leaving the entry under its old fingerprint *)
UpdateConversation_NoRekey(existingEntry, newMessages) ==
    LET uniqueMessages == filterDuplicateMessages(entries[existingEntry].Messages, newMessages)
    IN IF Len(uniqueMessages) = 0
       THEN /\ entries' = [entries EXCEPT ![existingEntry].LastAccessed = now]
            /\ UNCHANGED <<conversations, messageIndex>>
       ELSE LET extendedMessages == entries[existingEntry].Messages \o uniqueMessages
            IN /\ entries' = [entries EXCEPT ![existingEntry].Messages = extendedMessages,
                                             ![existingEntry].LastAccessed = now]
               /\ UNCHANGED conversations
               /\ messageIndex' = indexAll(messageIndex, uniqueMessages, existingEntry)

UpdateConversation(existingEntry, newMessages) ==
    LET uniqueMessages == filterDuplicateMessages(entries[existingEntry].Messages, newMessages)
    IN IF Len(uniqueMessages) = 0
       THEN /\ entries' = [entries EXCEPT ![existingEntry].LastAccessed = now]
            /\ UNCHANGED <<conversations, messageIndex>>
       ELSE LET extendedMessages == entries[existingEntry].Messages \o uniqueMessages
                oldFingerprint == GenerateFingerprint(entries[existingEntry].Messages)
                newFingerprint == GenerateFingerprint(extendedMessages)
            IN /\ entries' = [entries EXCEPT ![existingEntry].Messages = extendedMessages,
                                             ![existingEntry].LastAccessed = now]
               /\ conversations' = MapPut(MapDelete(conversations, oldFingerprint),
                                          newFingerprint, existingEntry)
               /\ messageIndex' = indexAll(messageIndex, uniqueMessages, existingEntry)

UpdateConversationOp(conversationID, newMessages) ==
    /\ lastOp' = Call("Update", newMessages, conversationID, FALSE)
    /\ UNCHANGED <<now, ticks>>
    /\ IF EntriesWithID(conversationID) = {}
       THEN UNCHANGED <<entries, conversations, messageIndex>>
       ELSE \E existingEntry \in EntriesWithID(conversationID) :
                /\ Len(entries[existingEntry].Messages)
                     + Len(filterDuplicateMessages(entries[existingEntry].Messages,
                                                   newMessages)) <= MaxLen
                /\ UpdateConversation(existingEntry, newMessages)

----------------------------------------------------------------------------
(* RecordAssistantEcho *)

(* UpdateLastOriginal writing the echo into every entry *)
UpdateLastOriginal_Everyone(existingEntry, assistantMessages) ==
    entries' = [a \in 1..Len(entries) |->
                   IF a = existingEntry
                   THEN [entries[a] EXCEPT !.LastOriginal = assistantMessages,
                                           !.LastAccessed = now]
                   ELSE [entries[a] EXCEPT !.LastOriginal = assistantMessages]]

UpdateLastOriginal(existingEntry, assistantMessages) ==
    entries' = [entries EXCEPT ![existingEntry].LastOriginal = assistantMessages,
                               ![existingEntry].LastAccessed = now]

UpdateLastOriginalOp(conversationID, assistantMessages) ==
    /\ lastOp' = Call("Echo", assistantMessages, conversationID, FALSE)
    /\ UNCHANGED <<conversations, messageIndex, now, ticks>>
    /\ IF EntriesWithID(conversationID) = {}
       THEN UNCHANGED entries
       ELSE \E existingEntry \in EntriesWithID(conversationID) :
                UpdateLastOriginal(existingEntry, assistantMessages)

----------------------------------------------------------------------------
(* Eviction *)

Expired(a) == now - entries[a].LastAccessed > MaxAge

toDelete == {fingerprint \in DOMAIN conversations : Expired(conversations[fingerprint])}

(* Removes from the lists of the hashes of msgs every entry with the given id;
   a list left empty is deleted. *)
RECURSIVE unindexAll(_, _, _)
unindexAll(index, msgs, conversationID) ==
    IF Len(msgs) = 0 THEN index
    ELSE LET msgHash == hashMessage(Head(msgs))
             keep(e) == entries[e].ConversationID # conversationID
             filtered == SelectSeq(MapGet(index, msgHash), keep)
         IN unindexAll(IF Len(filtered) = 0 THEN MapDelete(index, msgHash)
                       ELSE MapPut(index, msgHash, filtered),
                       Tail(msgs), conversationID)

RECURSIVE sweepIndex(_, _)
sweepIndex(index, fingerprints) ==
    IF fingerprints = {} THEN index
    ELSE LET fingerprint == CHOOSE f \in fingerprints : TRUE
             entry == entries[conversations[fingerprint]]
         IN sweepIndex(unindexAll(index, entry.Messages, entry.ConversationID),
                       fingerprints \ {fingerprint})

cleanupExpired ==
    /\ now >= TickerPeriod
    /\ conversations' = [f \in (DOMAIN conversations) \ toDelete |-> conversations[f]]
    /\ messageIndex' = sweepIndex(messageIndex, toDelete)
    /\ lastOp' = Call("Sweep", <<>>, Nil, FALSE)
    /\ UNCHANGED <<entries, now, ticks>>

(* Time passes between calls. *)
Tick ==
    /\ ticks < MaxTicks
    /\ \E d \in {MaxAge, MaxAge + TickerPeriod} : now' = now + d
    /\ ticks' = ticks + 1
    /\ lastOp' = Call("Tick", <<>>, Nil, FALSE)
    /\ UNCHANGED <<entries, conversations, messageIndex>>

SessionIDs == 1..MaxEntries

Echoes == SeqsUpTo(Messages, 1)

----------------------------------------------------------------------------

InitResolver ==
    /\ entries = <<>>
    /\ conversations = EmptyMap
    /\ messageIndex = EmptyMap
    /\ now = 0
    /\ ticks = 0
    /\ lastOp = Call("Init", <<>>, Nil, FALSE)

InitServe ==
    /\ sessions = 0
    /\ history = <<>>
    /\ used = <<>>
    /\ reqs = [r \in 1..MaxConcurrent |->
                  [pc |-> "idle", messages |-> <<>>, conversationID |-> Nil]]

NewStreamProcessor == [accumulated |-> <<>>, lastContent |-> <<>>, finishReason |-> ""]

InitTranslator ==
    /\ stream \in BOOLEAN
    /\ p = NewStreamProcessor
    /\ tpc = "scan"
    /\ rawChunks = <<>>
    /\ nread = 0
    /\ prevContent = <<>>
    /\ cumulative = TRUE

(* TokenInfo{}, and a handler's local variables at its start *)
NoTokens == [PromptTokens |-> 0, CompletionTokens |-> 0, TotalTokens |-> 0, HasTokens |-> FALSE]

NewHandler ==
    [hasReceivedContent |-> FALSE, sentMessageStart |-> FALSE,
     sentContentBlockStart |-> FALSE, sentMessageDelta |-> FALSE,
     fullContent |-> <<>>, finishReason |-> "",
     inputTokens |-> 0, outputTokens |-> 0]

InitPipeline ==
    /\ format \in {"A", "B"}
    /\ tokenInfo = NoTokens
    /\ lastTokens = NoTokens
    /\ nrelayed = 0
    /\ rpc = "run"
    /\ chunks = <<>>
    /\ errs = <<>>
    /\ handler = NewHandler
    /\ hpc = "run"
    /\ written = <<>>

(* Roles and contents as a request can carry them: the role of a turn is
   the string the client sent. *)
MaxPrintLen == 2

PrintMessages ==
    {Message(role, content) : role \in {"a", "a:b"}, content \in {"c", "b:c"}}

InitFingerprint ==
    /\ fpInputs \in SeqsUpTo(PrintMessages, MaxPrintLen) \X SeqsUpTo(PrintMessages, MaxPrintLen)
    /\ fpOutputs = <<>>

NoFingerprint == fpInputs = <<(<<>>), (<<>>)>> /\ fpOutputs = <<>>

Init ==
    /\ InitResolver /\ InitServe /\ InitTranslator /\ InitPipeline
    /\ stream = TRUE /\ format = "A" /\ NoFingerprint

----------------------------------------------------------------------------
(* UnifiedHandler.ServeHTTP: the session a request is resolved to *)

MaxRequests == 4

Questions == {"a", "b"}

Replies == {"x", "y"}

(* The client resends its history with the assistant's reply and a new user
   turn; its first request carries one user turn. *)
NextRequest(q, r) ==
    IF Len(history) = 0 THEN <<Message("user", q)>>
    ELSE history \o <<Message("assistant", r), Message("user", q)>>

(* createOk: whether LongCatClient.CreateSession succeeds, when it is called *)
ServeHTTP(messages, createOk) ==
    \E order \in Orders(DOMAIN conversations) :
        LET a == FindConversation(order, messages)
            newConvID == sessions + 1
        IN IF a # Nil
           THEN /\ entries' = Touch(a)
                /\ used' = Append(used, entries[a].ConversationID)
                /\ history' = messages
                /\ lastOp' = Call("Serve", messages, entries[a].ConversationID, TRUE)
                /\ UNCHANGED <<conversations, messageIndex, sessions>>
           ELSE IF createOk
           THEN /\ sessions' = newConvID
                /\ SetConversation(messages, newConvID)
                /\ used' = Append(used, newConvID)
                /\ history' = messages
                /\ lastOp' = Call("Serve", messages, newConvID, FALSE)
           ELSE /\ lastOp' = Call("ServeFailed", messages, Nil, FALSE)
                /\ UNCHANGED <<entries, conversations, messageIndex, sessions,
                               history, used>>

ServeHTTPOp(q, r, createOk) ==
    /\ Len(used) < MaxRequests
    /\ ServeHTTP(NextRequest(q, r), createOk)
    /\ UNCHANGED <<now, ticks, reqs>>
    /\ UNCHANGED <<translatorVars, pipelineVars, fingerprintVars>>

(* One client's conversation, request after request *)
NextServe ==
    \E q \in Questions, r \in Replies, createOk \in BOOLEAN : ServeHTTPOp(q, r, createOk)

SpecServe == Init /\ [][NextServe]_vars

----------------------------------------------------------------------------
(* StreamProcessor: the backend's cumulative events to delta chunks *)

MaxEvents == 3
MaxText == 2

Chars == {"a", "b"}

Texts == SeqsUpTo(Chars, MaxText)

(* The fields of a LongCatResponse that ProcessStream reads.  Delta and
   Role are choices[0].delta.content and choices[0].delta.role, FinishReason
   is choices[0].finishReason. *)
LongCatResponses ==
    [Content : Texts,
     Delta : {<<>>, <<"b">>},
     Role : {"", "assistant"},
     ContentStatus : {"PROCESSING", "FINISHED"},
     LastOne : BOOLEAN,
     FinishReason : {"", "stop", "length"}]

(* DeltaContent resending the whole cumulative text *)
DeltaContent_WholeText(longCatResp, accumulated) ==
    IF longCatResp.Delta # <<>> THEN longCatResp.Delta
    ELSE IF longCatResp.Content # accumulated THEN longCatResp.Content
    ELSE <<>>

(* The delta text convertToOpenAIFormat computes for an event *)
DeltaContent(longCatResp, accumulated) ==
    IF longCatResp.Delta # <<>> THEN longCatResp.Delta
    ELSE IF longCatResp.Content # <<>>
    THEN IF Len(longCatResp.Content) > Len(accumulated)
         THEN SubSeq(longCatResp.Content, Len(accumulated) + 1, Len(longCatResp.Content))
         ELSE IF longCatResp.Content # accumulated THEN longCatResp.Content
         ELSE <<>>
    ELSE <<>>

(* convertToOpenAIFormat(longCatResp, true), run on processor q: the chunk
   built, whether it is returned (nil otherwise), and the accumulated text
   afterwards. *)
convertToOpenAIFormat(q, longCatResp) ==
    LET role == IF longCatResp.Role # "" /\ longCatResp.ContentStatus = "PROCESSING"
                THEN "assistant" ELSE ""
        content == DeltaContent(longCatResp, q.accumulated)
        accumulated == q.accumulated \o content
        chunk == [Role |-> role, Content |-> content, FinishReason |-> q.finishReason]
    IN IF content # <<>> \/ q.finishReason # "" \/ role # ""
       THEN [chunk |-> chunk, returned |-> TRUE, accumulated |-> accumulated]
       ELSE IF /\ longCatResp.LastOne \/ longCatResp.ContentStatus = "FINISHED"
               /\ longCatResp.Content # <<>>
               /\ longCatResp.Content # accumulated
            THEN [chunk |-> [chunk EXCEPT !.Content = longCatResp.Content],
                  returned |-> TRUE, accumulated |-> accumulated]
            ELSE [chunk |-> chunk, returned |-> FALSE, accumulated |-> accumulated]

(* The finish reason ProcessStream determines for an event *)
DetermineFinishReason(longCatResp) ==
    IF longCatResp.FinishReason # "" THEN longCatResp.FinishReason
    ELSE IF longCatResp.LastOne THEN "stop"
    ELSE IF longCatResp.ContentStatus = "FINISHED" THEN "stop"
    ELSE ""

(* ProcessEvent taking each event's own finish reason for p.finishReason *)
ProcessEvent_Reset(longCatResp) ==
    LET finishReason == DetermineFinishReason(longCatResp)
        q == [p EXCEPT !.lastContent = IF longCatResp.Content # <<>>
                                       THEN longCatResp.Content ELSE @,
                       !.finishReason = finishReason]
        conv == convertToOpenAIFormat(q, longCatResp)
        final == longCatResp.LastOne \/ finishReason = "stop"
        streamed == IF conv.returned /\ stream THEN <<conv.chunk>> ELSE <<>>
        finalChunk == IF final /\ stream /\ conv.returned
                         /\ conv.chunk.FinishReason = "" /\ finishReason # ""
                      THEN <<[Role |-> "", Content |-> <<>>, FinishReason |-> finishReason]>>
                      ELSE <<>>
        aggregated == IF final /\ ~stream /\ conv.returned THEN <<conv.chunk>> ELSE <<>>
    IN /\ p' = [q EXCEPT !.accumulated = conv.accumulated]
       /\ rawChunks' = rawChunks \o streamed \o finalChunk \o aggregated
       /\ tpc' = IF final THEN "done" ELSE "scan"

(* One round of the scan loop on a data line that parses *)
ProcessEvent(longCatResp) ==
    LET finishReason == DetermineFinishReason(longCatResp)
        q == [p EXCEPT !.lastContent = IF longCatResp.Content # <<>>
                                       THEN longCatResp.Content ELSE @,
                       !.finishReason = IF finishReason # "" THEN finishReason ELSE @]
        conv == convertToOpenAIFormat(q, longCatResp)
        final == longCatResp.LastOne \/ finishReason = "stop"
        streamed == IF conv.returned /\ stream THEN <<conv.chunk>> ELSE <<>>
        finalChunk == IF final /\ stream /\ conv.returned
                         /\ conv.chunk.FinishReason = "" /\ finishReason # ""
                      THEN <<[Role |-> "", Content |-> <<>>, FinishReason |-> finishReason]>>
                      ELSE <<>>
        aggregated == IF final /\ ~stream /\ conv.returned THEN <<conv.chunk>> ELSE <<>>
    IN /\ p' = [q EXCEPT !.accumulated = conv.accumulated]
       /\ rawChunks' = rawChunks \o streamed \o finalChunk \o aggregated
       /\ tpc' = IF final THEN "done" ELSE "scan"

ReadEvent(longCatResp) ==
    /\ tpc = "scan"
    /\ nread < MaxEvents
    /\ ProcessEvent(longCatResp)
    /\ nread' = nread + 1
    /\ prevContent' = longCatResp.Content
    /\ cumulative' = (/\ cumulative
                      /\ longCatResp.Delta = <<>>
                      /\ Len(prevContent) <= Len(longCatResp.Content)
                      /\ SubSeq(longCatResp.Content, 1, Len(prevContent)) = prevContent)
    /\ UNCHANGED stream

(* A data line that does not parse: the error is queued and the goroutine
   returns. *)
ReadMalformed ==
    /\ tpc = "scan"
    /\ tpc' = "error"
    /\ UNCHANGED <<stream, p, rawChunks, nread, prevContent, cumulative>>

(* The [DONE] line, or the end of the body *)
ReadEnd ==
    /\ tpc = "scan"
    /\ tpc' = "done"
    /\ UNCHANGED <<stream, p, rawChunks, nread, prevContent, cumulative>>

NextTranslator ==
    \/ \E longCatResp \in LongCatResponses :
           ReadEvent(longCatResp) /\ UNCHANGED <<resolverVars, serveVars, pipelineVars, fingerprintVars>>
    \/ ReadMalformed /\ UNCHANGED <<resolverVars, serveVars, pipelineVars, fingerprintVars>>
    \/ ReadEnd /\ UNCHANGED <<resolverVars, serveVars, pipelineVars, fingerprintVars>>

InitStreams ==
    InitResolver /\ InitServe /\ InitTranslator /\ InitPipeline /\ format = "A" /\ NoFingerprint

SpecTranslator == InitStreams /\ [][NextTranslator]_vars

----------------------------------------------------------------------------
(* The response pipeline of one request: the ProcessStream goroutine, the
   ConvertResponse goroutine that relays its chunks, and the handler that
   writes the response to the client.

   ProcessStream's chunks channel is unbuffered: a send completes when the
   relay receives, so the translator takes its next step only when every
   chunk it sent has been received (nrelayed = Len(rawChunks)).  rawErrs
   holds the parse error once tpc = "error", and both of ProcessStream's
   channels are closed once the goroutine is over.  A Go select with several
   ready cases takes any of them. *)

MaxPipeEvents == 2

ChunkBuffer == 10

FallbackText == <<"I apologize, but I'm unable to process your request at the moment.">>

TokenInfos ==
    {NoTokens,
     [PromptTokens |-> 1, CompletionTokens |-> 2, TotalTokens |-> 3, HasTokens |-> TRUE]}

FinishReasons == {"", "stop", "length", "content_filter", "tool_calls"}

(* The backend events of the pipeline: cumulative texts without explicit
   deltas. *)
PipelineEvents ==
    [Content : {<<>>, <<"a">>, <<"a", "b">>},
     Delta : {<<>>},
     Role : {""},
     ContentStatus : {"PROCESSING", "FINISHED"},
     LastOne : BOOLEAN,
     FinishReason : FinishReasons]

(* ProcessStream, one event: p.tokenInfo is replaced when the event marks
   its token usage as populated. *)
TranslatorEvent(longCatResp, tokens) ==
    /\ nrelayed = Len(rawChunks)
    /\ nread < MaxPipeEvents
    /\ ReadEvent(longCatResp)
    /\ tokenInfo' = IF tokens.HasTokens THEN tokens ELSE tokenInfo
    /\ lastTokens' = IF tokens.HasTokens THEN tokens ELSE lastTokens
    /\ UNCHANGED <<format, nrelayed, rpc, chunks, errs, handler, hpc, written>>

TranslatorMalformed ==
    /\ nrelayed = Len(rawChunks)
    /\ ReadMalformed
    /\ UNCHANGED pipelineVars

TranslatorEnd ==
    /\ nrelayed = Len(rawChunks)
    /\ ReadEnd
    /\ UNCHANGED pipelineVars

(* mapToClaudeStopReason without the case of "length" *)
mapToClaudeStopReason_NoLength(openAIReason) ==
    CASE openAIReason = "stop" -> "end_turn"
      [] openAIReason = "content_filter" -> "refusal"
      [] OTHER -> "end_turn"

(* ClaudeService.mapToClaudeStopReason *)
mapToClaudeStopReason(openAIReason) ==
    CASE openAIReason = "stop" -> "end_turn"
      [] openAIReason = "length" -> "max_tokens"
      [] openAIReason = "content_filter" -> "refusal"
      [] OTHER -> "end_turn"

ClaudeUsage(inputTokens, outputTokens) ==
    [InputTokens |-> inputTokens, OutputTokens |-> outputTokens]

(* ClaudeService.convertOpenAIToClaudeChunk: the chunk, or none for nil *)
convertOpenAIToClaudeChunk(openAIChunk, processorTokens) ==
    IF openAIChunk.Content # <<>>
    THEN <<[Type |-> "content_block_delta", Text |-> openAIChunk.Content]>>
    ELSE IF openAIChunk.FinishReason # ""
    THEN <<[Type |-> "message_delta",
            StopReason |-> mapToClaudeStopReason(openAIChunk.FinishReason),
            Usage |-> ClaudeUsage(processorTokens.PromptTokens,
                                  processorTokens.CompletionTokens)]>>
    ELSE <<>>

(* The type assertions of the handlers *)
IsChatCompletionChunk(chunk) == "FinishReason" \in DOMAIN chunk

IsClaudeStreamChunk(chunk) == "Type" \in DOMAIN chunk

(* ConvertResponse: a chunk is received from ProcessStream ... *)
RelayReceive ==
    /\ rpc = "run"
    /\ nrelayed < Len(rawChunks)
    /\ nrelayed' = nrelayed + 1
    /\ rpc' = "send"
    /\ UNCHANGED <<format, tokenInfo, lastTokens, chunks, errs, handler, hpc, written>>
    /\ UNCHANGED translatorVars

(* RelaySend without the timer: a send that finds the buffer full waits *)
RelaySend_NoTimer ==
    /\ rpc = "send"
    /\ LET out == IF format = "A" THEN <<rawChunks[nrelayed]>>
                  ELSE convertOpenAIToClaudeChunk(rawChunks[nrelayed], tokenInfo)
       IN IF Len(chunks) + Len(out) <= ChunkBuffer
          THEN /\ chunks' = chunks \o out
               /\ rpc' = "run"
               /\ UNCHANGED errs
          ELSE UNCHANGED <<chunks, rpc, errs>>
    /\ UNCHANGED <<format, tokenInfo, lastTokens, nrelayed, handler, hpc, written>>
    /\ UNCHANGED translatorVars

(* ... and sent on, converted in format B (a nil conversion is dropped);
   the send times out when the buffer stays full. *)
RelaySend ==
    /\ rpc = "send"
    /\ LET out == IF format = "A" THEN <<rawChunks[nrelayed]>>
                  ELSE convertOpenAIToClaudeChunk(rawChunks[nrelayed], tokenInfo)
       IN IF Len(chunks) + Len(out) <= ChunkBuffer
          THEN /\ chunks' = chunks \o out
               /\ rpc' = "run"
               /\ UNCHANGED errs
          ELSE /\ errs' = <<"timeout sending chunk">>
               /\ rpc' = "returned"
               /\ UNCHANGED chunks
    /\ UNCHANGED <<format, tokenInfo, lastTokens, nrelayed, handler, hpc, written>>
    /\ UNCHANGED translatorVars

(* RelayClosed leaving without closing chunks and errs *)
RelayClosed_NoClose ==
    /\ rpc = "run"
    /\ nrelayed = Len(rawChunks)
    /\ tpc \in {"done", "error"}
    /\ rpc' = "exited"
    /\ UNCHANGED <<format, tokenInfo, lastTokens, nrelayed, chunks, errs, handler, hpc, written>>
    /\ UNCHANGED translatorVars

(* ConvertResponse finds rawChunks closed and returns, closing chunks and
   errs. *)
RelayClosed ==
    /\ rpc = "run"
    /\ nrelayed = Len(rawChunks)
    /\ tpc \in {"done", "error"}
    /\ rpc' = "returned"
    /\ UNCHANGED <<format, tokenInfo, lastTokens, nrelayed, chunks, errs, handler, hpc, written>>
    /\ UNCHANGED translatorVars

(* ConvertResponse receives from rawErrs -- the parse error, or nil from the
   closed channel --, passes it on if errs has room, and returns. *)
RelayErr ==
    /\ rpc = "run"
    /\ nrelayed = Len(rawChunks)
    /\ tpc \in {"done", "error"}
    /\ errs' = IF errs = <<>>
               THEN <<IF tpc = "error" THEN "failed to unmarshal response" ELSE "nil">>
               ELSE errs
    /\ rpc' = "returned"
    /\ UNCHANGED <<format, tokenInfo, lastTokens, nrelayed, chunks, handler, hpc, written>>
    /\ UNCHANGED translatorVars

(* OpenAIService.HandleStreamingResponse *)
DefaultChunk == [Role |-> "assistant", Content |-> FallbackText, FinishReason |-> "stop"]

(* OpenAIStreamingChunk writing the frame of a chunk twice *)
OpenAIStreamingChunk_Twice(chunk) ==
    [handler |-> [handler EXCEPT !.hasReceivedContent = TRUE],
     frames |-> <<[Type |-> "data", Chunk |-> chunk], [Type |-> "data", Chunk |-> chunk]>>]

OpenAIStreamingChunk(chunk) ==
    [handler |-> [handler EXCEPT !.hasReceivedContent = TRUE],
     frames |-> <<[Type |-> "data", Chunk |-> chunk]>>]

(* OpenAIStreamingClosed ending the stream with the sentinel frame only
   when the fallback chunk was written *)
OpenAIStreamingClosed_NoSentinel ==
    IF ~handler.hasReceivedContent
    THEN <<[Type |-> "data", Chunk |-> DefaultChunk], [Type |-> "[DONE]"]>>
    ELSE <<>>

OpenAIStreamingClosed ==
    (IF ~handler.hasReceivedContent THEN <<[Type |-> "data", Chunk |-> DefaultChunk]>> ELSE <<>>)
        \o <<[Type |-> "[DONE]"]>>

(* OpenAIService.HandleNonStreamingResponse *)
OpenAINonStreamingChunk(chunk) ==
    [handler |-> IF IsChatCompletionChunk(chunk)
                 THEN [handler EXCEPT !.fullContent = @ \o chunk.Content,
                                      !.finishReason = IF chunk.FinishReason # ""
                                                       THEN chunk.FinishReason ELSE @]
                 ELSE handler,
     frames |-> <<>>]

OpenAINonStreamingClosed ==
    <<[Type |-> "response",
       Content |-> handler.fullContent,
       FinishReason |-> handler.finishReason,
       Usage |-> [PromptTokens |-> NoTokens.PromptTokens,
                  CompletionTokens |-> NoTokens.CompletionTokens,
                  TotalTokens |-> NoTokens.TotalTokens]]>>

(* ClaudeService.HandleStreamingResponse and its send helpers *)
sendMessageStart(inputTokens, outputTokens) ==
    [Type |-> "message_start", Usage |-> ClaudeUsage(inputTokens, outputTokens)]

sendContentBlockStart == [Type |-> "content_block_start"]

sendContentBlockStop == [Type |-> "content_block_stop"]

sendMessageDelta(stopReason, inputTokens, outputTokens) ==
    [Type |-> "message_delta", StopReason |-> stopReason,
     Usage |-> ClaudeUsage(inputTokens, outputTokens)]

sendMessageStop == [Type |-> "message_stop"]

sendDefaultSequence ==
    <<sendMessageStart(0, 0), sendContentBlockStart,
      [Type |-> "content_block_delta", Text |-> FallbackText],
      sendContentBlockStop, sendMessageDelta("end_turn", 0, 0), sendMessageStop>>

sendErrorEvent == [Type |-> "error"]

ClaudeStreamingChunk(chunk) ==
    LET received == [handler EXCEPT !.hasReceivedContent = TRUE]
        start(inputTokens, outputTokens) ==
            (IF ~handler.sentMessageStart
             THEN <<sendMessageStart(inputTokens, outputTokens)>> ELSE <<>>)
            \o (IF ~handler.sentContentBlockStart THEN <<sendContentBlockStart>> ELSE <<>>)
    IN IF ~IsClaudeStreamChunk(chunk)
       THEN [handler |-> received, frames |-> <<>>]
       ELSE IF chunk.Type = "content_block_delta"
       THEN [handler |-> [received EXCEPT !.sentMessageStart = TRUE,
                                          !.sentContentBlockStart = TRUE],
             frames |-> start(0, 0) \o <<chunk>>]
       ELSE [handler |-> [received EXCEPT !.sentMessageStart = TRUE,
                                          !.sentContentBlockStart = TRUE,
                                          !.sentMessageDelta = TRUE,
                                          !.inputTokens = chunk.Usage.InputTokens,
                                          !.outputTokens = chunk.Usage.OutputTokens],
             frames |-> start(chunk.Usage.InputTokens, chunk.Usage.OutputTokens)
                           \o <<sendContentBlockStop, chunk>>]

ClaudeStreamingClosed ==
    IF ~handler.hasReceivedContent THEN sendDefaultSequence
    ELSE (IF ~handler.sentMessageDelta
          THEN <<sendMessageDelta("end_turn", handler.inputTokens, handler.outputTokens)>>
          ELSE <<>>)
         \o <<sendMessageStop>>

(* ClaudeService.HandleNonStreamingResponse *)
ClaudeNonStreamingChunk(chunk) ==
    [handler |-> IF IsChatCompletionChunk(chunk)
                 THEN [handler EXCEPT !.fullContent = @ \o chunk.Content,
                                      !.finishReason =
                                          IF chunk.FinishReason # ""
                                          THEN mapToClaudeStopReason(chunk.FinishReason)
                                          ELSE @]
                 ELSE handler,
     frames |-> <<>>]

ClaudeNonStreamingClosed ==
    <<[Type |-> "response",
       Text |-> handler.fullContent,
       StopReason |-> handler.finishReason,
       Usage |-> ClaudeUsage(handler.inputTokens, handler.outputTokens)]>>

(* The handler's select takes a chunk ... *)
HandlerChunk ==
    /\ hpc = "run"
    /\ chunks # <<>>
    /\ LET chunk == Head(chunks)
           step == CASE format = "A" /\ stream -> OpenAIStreamingChunk(chunk)
                     [] format = "A" /\ ~stream -> OpenAINonStreamingChunk(chunk)
                     [] format = "B" /\ stream -> ClaudeStreamingChunk(chunk)
                     [] format = "B" /\ ~stream -> ClaudeNonStreamingChunk(chunk)
       IN /\ handler' = step.handler
          /\ written' = written \o step.frames
    /\ chunks' = Tail(chunks)
    /\ UNCHANGED <<format, tokenInfo, lastTokens, nrelayed, rpc, errs, hpc>>
    /\ UNCHANGED translatorVars

(* ... or finds chunks closed: it writes the end of the response and returns
   nil ... *)
HandlerClosed ==
    /\ hpc = "run"
    /\ chunks = <<>>
    /\ rpc = "returned"
    /\ written' = written \o
           (CASE format = "A" /\ stream -> OpenAIStreamingClosed
              [] format = "A" /\ ~stream -> OpenAINonStreamingClosed
              [] format = "B" /\ stream -> ClaudeStreamingClosed
              [] format = "B" /\ ~stream -> ClaudeNonStreamingClosed)
    /\ hpc' = "ok"
    /\ UNCHANGED <<format, tokenInfo, lastTokens, nrelayed, rpc, chunks, errs, handler>>
    /\ UNCHANGED translatorVars

(* HandlerErr returning the error without writing the error event *)
HandlerErr_NoEvent ==
    /\ hpc = "run"
    /\ errs # <<>>
    /\ errs' = Tail(errs)
    /\ IF Head(errs) # "nil"
       THEN /\ hpc' = "err"
            /\ UNCHANGED written
       ELSE UNCHANGED <<hpc, written>>
    /\ UNCHANGED <<format, tokenInfo, lastTokens, nrelayed, rpc, chunks, handler>>
    /\ UNCHANGED translatorVars

(* ... or receives from errs: a non-nil error makes it return that error
   (the streaming handler of format B writes an error event first). *)
HandlerErr ==
    /\ hpc = "run"
    /\ errs # <<>>
    /\ errs' = Tail(errs)
    /\ IF Head(errs) # "nil"
       THEN /\ hpc' = "err"
            /\ written' = IF format = "B" /\ stream
                          THEN Append(written, sendErrorEvent) ELSE written
       ELSE UNCHANGED <<hpc, written>>
    /\ UNCHANGED <<format, tokenInfo, lastTokens, nrelayed, rpc, chunks, handler>>
    /\ UNCHANGED translatorVars

NextPipeline ==
    \/ \E longCatResp \in PipelineEvents, tokens \in TokenInfos :
           TranslatorEvent(longCatResp, tokens) /\ UNCHANGED <<resolverVars, serveVars, fingerprintVars>>
    \/ TranslatorMalformed /\ UNCHANGED <<resolverVars, serveVars, fingerprintVars>>
    \/ TranslatorEnd /\ UNCHANGED <<resolverVars, serveVars, fingerprintVars>>
    \/ RelayReceive /\ UNCHANGED <<resolverVars, serveVars, fingerprintVars>>
    \/ RelaySend /\ UNCHANGED <<resolverVars, serveVars, fingerprintVars>>
    \/ RelayClosed /\ UNCHANGED <<resolverVars, serveVars, fingerprintVars>>
    \/ RelayErr /\ UNCHANGED <<resolverVars, serveVars, fingerprintVars>>
    \/ HandlerChunk /\ UNCHANGED <<resolverVars, serveVars, fingerprintVars>>
    \/ HandlerClosed /\ UNCHANGED <<resolverVars, serveVars, fingerprintVars>>
    \/ HandlerErr /\ UNCHANGED <<resolverVars, serveVars, fingerprintVars>>

InitRequest == InitResolver /\ InitServe /\ InitTranslator /\ InitPipeline /\ NoFingerprint

SpecPipeline == InitRequest /\ [][NextPipeline]_vars

----------------------------------------------------------------------------
(* The pipeline under fair scheduling, with a backend stream that ends and a
   client that keeps draining: every goroutine that can take a step takes
   one in the end, the scanner reaches the end of the body, and a select
   with several ready cases takes each of them in the end. *)
SpecTermination ==
    /\ InitRequest
    /\ [][NextPipeline]_vars
    /\ WF_vars(TranslatorEnd /\ UNCHANGED <<resolverVars, serveVars, fingerprintVars>>)
    /\ WF_vars(RelayReceive /\ UNCHANGED <<resolverVars, serveVars, fingerprintVars>>)
    /\ WF_vars(RelaySend /\ UNCHANGED <<resolverVars, serveVars, fingerprintVars>>)
    /\ WF_vars((RelayClosed \/ RelayErr) /\ UNCHANGED <<resolverVars, serveVars, fingerprintVars>>)
    /\ WF_vars(HandlerChunk /\ UNCHANGED <<resolverVars, serveVars, fingerprintVars>>)
    /\ WF_vars(HandlerClosed /\ UNCHANGED <<resolverVars, serveVars, fingerprintVars>>)

----------------------------------------------------------------------------

(* The relay under a consumer that never drains its output queue: the
   translator and the relay run, the handler takes no step.  The 5-second
   timer of the relay's send fires when the send cannot proceed, so the
   relay's send step is taken whenever it stays enabled. *)

MaxBurst == 12

(* Backend events that each make the translator send one content chunk *)
BurstEvents ==
    [Content : {<<>>},
     Delta : {<<"b">>},
     Role : {"", "assistant"},
     ContentStatus : {"PROCESSING"},
     LastOne : {FALSE},
     FinishReason : {""}]

TranslatorBurst(longCatResp) ==
    /\ nrelayed = Len(rawChunks)
    /\ tpc = "scan"
    /\ nread < MaxBurst
    /\ ProcessEvent(longCatResp)
    /\ nread' = nread + 1
    /\ prevContent' = longCatResp.Content
    /\ cumulative' = FALSE
    /\ UNCHANGED stream
    /\ UNCHANGED pipelineVars

NextBackpressure ==
    \/ \E longCatResp \in BurstEvents :
           TranslatorBurst(longCatResp) /\ UNCHANGED <<resolverVars, serveVars, fingerprintVars>>
    \/ TranslatorEnd /\ UNCHANGED <<resolverVars, serveVars, fingerprintVars>>
    \/ RelayReceive /\ UNCHANGED <<resolverVars, serveVars, fingerprintVars>>
    \/ RelaySend /\ UNCHANGED <<resolverVars, serveVars, fingerprintVars>>
    \/ RelayClosed /\ UNCHANGED <<resolverVars, serveVars, fingerprintVars>>
    \/ RelayErr /\ UNCHANGED <<resolverVars, serveVars, fingerprintVars>>

InitBackpressure == InitRequest /\ stream = TRUE

SpecBackpressure ==
    /\ InitBackpressure
    /\ [][NextBackpressure]_vars
    /\ WF_vars(RelaySend /\ UNCHANGED <<resolverVars, serveVars, fingerprintVars>>)

(* The gateway under any sequence of inbound requests: each request carries
   any turn list, the empty one included. *)
MaxGatewayRequests == 3

ServeRequest(messages, createOk) ==
    /\ Len(used) < MaxGatewayRequests
    /\ ServeHTTP(messages, createOk)
    /\ UNCHANGED <<now, ticks, reqs>>
    /\ UNCHANGED <<translatorVars, pipelineVars, fingerprintVars>>

NextGateway ==
    \E messages \in TurnSeqs, createOk \in BOOLEAN : ServeRequest(messages, createOk)

SpecGateway == Init /\ [][NextGateway]_vars

(* Requests that run ServeHTTP at the same time, each in a goroutine of its
   own: FindConversation, CreateSession and SetConversation of one request
   are separate steps, and steps of different requests interleave.  The
   requests carry histories of two turns, which a Lookup can match. *)
ConcurrentTurns ==
    {<<Message("user", "a"), Message("assistant", "b")>>,
     <<Message("assistant", "b"), Message("user", "a")>>}

(* extractMessagesFromRequest has returned the history of the request *)
ServeArrive(r, messages) ==
    /\ reqs[r].pc = "idle"
    /\ reqs' = [reqs EXCEPT ![r].pc = "find", ![r].messages = messages]
    /\ lastOp' = Call("Arrive", messages, Nil, FALSE)
    /\ UNCHANGED <<entries, conversations, messageIndex, now, ticks>>
    /\ UNCHANGED <<sessions, history, used>>

(* h.conversationManager.FindConversation(messages) *)
ServeFind(r) ==
    /\ reqs[r].pc = "find"
    /\ \E order \in Orders(DOMAIN conversations) :
          LET a == FindConversation(order, reqs[r].messages)
          IN IF a # Nil
             THEN /\ entries' = Touch(a)
                  /\ reqs' = [reqs EXCEPT ![r].pc = "done",
                                          ![r].conversationID = entries[a].ConversationID]
                  /\ used' = Append(used, entries[a].ConversationID)
                  /\ lastOp' = Call("Find", reqs[r].messages, entries[a].ConversationID, TRUE)
             ELSE /\ reqs' = [reqs EXCEPT ![r].pc = "create"]
                  /\ lastOp' = Call("Find", reqs[r].messages, Nil, FALSE)
                  /\ UNCHANGED <<entries, used>>
    /\ UNCHANGED <<conversations, messageIndex, now, ticks>>
    /\ UNCHANGED <<sessions, history>>

(* h.longCatClient.CreateSession(r.Context()) *)
ServeCreate(r, createOk) ==
    /\ reqs[r].pc = "create"
    /\ IF createOk
       THEN /\ sessions' = sessions + 1
            /\ reqs' = [reqs EXCEPT ![r].pc = "set", ![r].conversationID = sessions + 1]
            /\ lastOp' = Call("Create", reqs[r].messages, sessions + 1, FALSE)
       ELSE /\ reqs' = [reqs EXCEPT ![r].pc = "failed"]
            /\ lastOp' = Call("ServeFailed", reqs[r].messages, Nil, FALSE)
            /\ UNCHANGED sessions
    /\ UNCHANGED <<entries, conversations, messageIndex, now, ticks>>
    /\ UNCHANGED <<history, used>>

(* h.conversationManager.SetConversation(messages, conversationID) *)
ServeSet(r) ==
    /\ reqs[r].pc = "set"
    /\ SetConversation(reqs[r].messages, reqs[r].conversationID)
    /\ reqs' = [reqs EXCEPT ![r].pc = "done"]
    /\ used' = Append(used, reqs[r].conversationID)
    /\ lastOp' = Call("Set", reqs[r].messages, reqs[r].conversationID, FALSE)
    /\ UNCHANGED <<now, ticks>>
    /\ UNCHANGED <<sessions, history>>

NextConcurrent ==
    \/ \E r \in 1..MaxConcurrent, messages \in ConcurrentTurns :
           ServeArrive(r, messages) /\ UNCHANGED <<translatorVars, pipelineVars, fingerprintVars>>
    \/ \E r \in 1..MaxConcurrent : ServeFind(r) /\ UNCHANGED <<translatorVars, pipelineVars, fingerprintVars>>
    \/ \E r \in 1..MaxConcurrent, createOk \in BOOLEAN :
           ServeCreate(r, createOk) /\ UNCHANGED <<translatorVars, pipelineVars, fingerprintVars>>
    \/ \E r \in 1..MaxConcurrent : ServeSet(r) /\ UNCHANGED <<translatorVars, pipelineVars, fingerprintVars>>

SpecConcurrent == Init /\ [][NextConcurrent]_vars

(* The resolver with up to three sessions, under Register,
   RecordAssistantEcho, the passing of time and Lookups of two turns that
   match no entry exactly: every entry is a prefix candidate, so that
   several candidates can pass the echo filter while another does not. *)
MaxTieEntries == 3

TieTurns ==
    {<<Message("user", "a")>>, <<Message("assistant", "b")>>,
     <<Message("user", "a"), Message("assistant", "b")>>}

TieQueries ==
    {<<Message("assistant", "b"), Message("user", "a")>>,
     <<Message("user", "a"), Message("user", "a")>>}

SetConversationTie(messages) ==
    /\ Len(entries) < MaxTieEntries
    /\ SetConversation(messages, Len(entries) + 1)
    /\ lastOp' = Call("Set", messages, Len(entries) + 1, FALSE)
    /\ UNCHANGED <<now, ticks>>

NextTieBreak ==
    \/ \E messages \in TieQueries :
            FindConversationOp(messages) /\ UNCHANGED <<serveVars, translatorVars, pipelineVars, fingerprintVars>>
    \/ \E messages \in TieTurns :
            SetConversationTie(messages) /\ UNCHANGED <<serveVars, translatorVars, pipelineVars, fingerprintVars>>
    \/ \E id \in 1..MaxTieEntries, echo \in Echoes \ {<<>>} :
            UpdateLastOriginalOp(id, echo) /\ UNCHANGED <<serveVars, translatorVars, pipelineVars, fingerprintVars>>
    \/ Tick /\ UNCHANGED <<serveVars, translatorVars, pipelineVars, fingerprintVars>>

SpecTieBreak == Init /\ [][NextTieBreak]_vars

(* GenerateFingerprint applied to two turn sequences of a request *)
Fingerprint ==
    /\ fpOutputs = <<>>
    /\ fpOutputs' = <<GenerateFingerprint(fpInputs[1]), GenerateFingerprint(fpInputs[2]),
                      GenerateFingerprint(fpInputs[1])>>
    /\ UNCHANGED fpInputs

NextFingerprint ==
    Fingerprint /\ UNCHANGED <<resolverVars, serveVars, translatorVars, pipelineVars>>

InitPrints ==
    /\ InitResolver /\ InitServe /\ InitTranslator /\ InitPipeline
    /\ stream = TRUE /\ format = "A" /\ InitFingerprint

SpecFingerprint == InitPrints /\ [][NextFingerprint]_vars

(* The resolver under Register, Extend, Lookup, the passing of time and the
   eviction sweep. *)
Next ==
    \/ \E messages \in TurnSeqs : FindConversationOp(messages) /\ UNCHANGED <<serveVars, translatorVars, pipelineVars, fingerprintVars>>
    \/ \E messages \in NewTurns \ {<<>>} : SetConversationOp(messages) /\ UNCHANGED <<serveVars, translatorVars, pipelineVars, fingerprintVars>>
    \/ \E id \in SessionIDs, messages \in NewTurns :
            UpdateConversationOp(id, messages) /\ UNCHANGED <<serveVars, translatorVars, pipelineVars, fingerprintVars>>
    \/ cleanupExpired /\ UNCHANGED <<serveVars, translatorVars, pipelineVars, fingerprintVars>>
    \/ Tick /\ UNCHANGED <<serveVars, translatorVars, pipelineVars, fingerprintVars>>

(* The resolver under Register, RecordAssistantEcho, Lookup and the passing
   of time: the tables on which Lookup has to disambiguate. *)
NextEcho ==
    \/ \E messages \in TurnSeqs : FindConversationOp(messages) /\ UNCHANGED <<serveVars, translatorVars, pipelineVars, fingerprintVars>>
    \/ \E messages \in NewTurns \ {<<>>} : SetConversationOp(messages) /\ UNCHANGED <<serveVars, translatorVars, pipelineVars, fingerprintVars>>
    \/ \E id \in SessionIDs, echo \in Echoes :
            UpdateLastOriginalOp(id, echo) /\ UNCHANGED <<serveVars, translatorVars, pipelineVars, fingerprintVars>>
    \/ Tick /\ UNCHANGED <<serveVars, translatorVars, pipelineVars, fingerprintVars>>

SpecEcho == Init /\ [][NextEcho]_vars

Spec == Init /\ [][Next]_vars

----------------------------------------------------------------------------
(* Vocabulary of the properties *)

IsPrefix(pre, seq) == Len(pre) <= Len(seq) /\ SubSeq(seq, 1, Len(pre)) = pre

AddrOf(id) == CHOOSE a \in 1..Len(entries) : entries[a].ConversationID = id

Stored == Range(conversations)

HasExact(turns) == GenerateFingerprint(turns) \in DOMAIN conversations

QueryPrefix(turns) == SubSeq(turns, 1, Len(turns) - 2)

TailFirst(turns) == turns[Len(turns) - 1]

PrefixCandidates(turns) ==
    {a \in Stored : IsPrefix(QueryPrefix(turns), entries[a].Messages)}

EchoIs(a, turn) ==
    Len(entries[a].LastOriginal) > 0 /\ entries[a].LastOriginal[1] = turn

Referenced(a) ==
    \E h \in DOMAIN messageIndex : \E i \in 1..Len(messageIndex[h]) : messageIndex[h][i] = a

Looked == lastOp.op = "Find"

(* A lookup that went past the exact-match step with several prefix candidates *)
Ambiguous ==
    /\ Looked
    /\ Len(lastOp.messages) >= 2
    /\ ~HasExact(lastOp.messages)
    /\ Cardinality(PrefixCandidates(lastOp.messages)) > 1

----------------------------------------------------------------------------
(* C2 as stated: for every non-empty turn sequence T registered for session S
   and not changed since, Lookup(T) returns (S, true), a single-turn T
   included. *)
C2_ExactMatchAnyLength ==
    (Looked /\ Len(lastOp.messages) >= 1 /\ HasExact(lastOp.messages))
        => /\ lastOp.found
           /\ lastOp.id = entries[conversations[GenerateFingerprint(lastOp.messages)]].ConversationID

(* C2 amended: for every turn sequence T of at least two turns that is
   registered for session S, Lookup(T) returns (S, true). *)
C2_ExactMatch ==
    (Looked /\ Len(lastOp.messages) >= 2 /\ HasExact(lastOp.messages))
        => /\ lastOp.found
           /\ lastOp.id = entries[conversations[GenerateFingerprint(lastOp.messages)]].ConversationID

C2_Witness ==
    /\ Looked /\ Len(lastOp.messages) >= 2 /\ HasExact(lastOp.messages)
    /\ entries[conversations[GenerateFingerprint(lastOp.messages)]].Messages = lastOp.messages
    /\ Cardinality(Stored) > 1
    /\ lastOp.found

(* C3: a Lookup with fewer than two turns returns not-found and leaves the
   table, every lastAccessed included, as it was. *)
C3_ShortLookup ==
    [][(lastOp'.op = "Find" /\ Len(lastOp'.messages) < 2)
          => (~lastOp'.found /\ UNCHANGED <<entries, conversations, messageIndex>>)]_vars

C3_Witness ==
    /\ Looked /\ Len(lastOp.messages) = 1 /\ ~lastOp.found
    /\ HasExact(lastOp.messages)
    /\ now > entries[conversations[GenerateFingerprint(lastOp.messages)]].LastAccessed

(* C4: a Lookup with no exact fingerprint match for which exactly one stored
   entry has turns[0 : len-2] as a prefix of its turns returns that entry's
   session id, found. *)
C4_UniquePrefix ==
    (/\ Looked
     /\ Len(lastOp.messages) >= 2
     /\ ~HasExact(lastOp.messages)
     /\ Cardinality(PrefixCandidates(lastOp.messages)) = 1)
        => /\ lastOp.found
           /\ \A a \in PrefixCandidates(lastOp.messages) : lastOp.id = entries[a].ConversationID

C4_Witness ==
    /\ Looked /\ Len(lastOp.messages) = 3 /\ ~HasExact(lastOp.messages)
    /\ Cardinality(PrefixCandidates(lastOp.messages)) = 1
    /\ Cardinality(Stored) = 2
    /\ lastOp.found

(* C5: when more than one entry matches the prefix, an entry that Lookup
   returns has a recorded echo equal to the first element of the tail. *)
C5_EchoRespected ==
    (Ambiguous /\ lastOp.found) => EchoIs(AddrOf(lastOp.id), TailFirst(lastOp.messages))

(* C6: when more than one entry matches the prefix and no candidate's echo
   equals the first element of the tail, Lookup returns not-found. *)
C6_NoSurvivor ==
    (/\ Ambiguous
     /\ \A a \in PrefixCandidates(lastOp.messages) : ~EchoIs(a, TailFirst(lastOp.messages)))
        => (~lastOp.found /\ lastOp.id = Nil)

C6_Witness ==
    /\ Ambiguous
    /\ \A a \in PrefixCandidates(lastOp.messages) : ~EchoIs(a, TailFirst(lastOp.messages))
    /\ \E a \in PrefixCandidates(lastOp.messages) : Len(entries[a].LastOriginal) > 0
    /\ ~lastOp.found

(* The entry a call with this session id acts on, before the call *)
Target(id) == {a \in Stored : entries[a].ConversationID = id}

Disjoint(T, N) == \A i \in 1..Len(T) : \A j \in 1..Len(N) : T[i] # N[j]

KeyedAndFound(a, turns) ==
    /\ HasExact(turns)
    /\ conversations[GenerateFingerprint(turns)] = a
    /\ \A order \in Orders(DOMAIN conversations) : FindConversation(order, turns) = a

(* C7 as stated: for every non-empty T and non-empty N, after the entry with
   turns T of session S is extended by N, the entry is keyed by
   fingerprint(T ++ N) and Lookup(T ++ N) returns S by the exact match. *)
C7_ExtendThenLookupAnyTurns ==
    [][\A a \in Target(lastOp'.id), T \in TurnSeqs, N \in NewTurns :
          (/\ lastOp'.op = "Update"
           /\ T = entries[a].Messages /\ N = lastOp'.messages
           /\ Len(T) >= 1 /\ Len(N) >= 1)
              => KeyedAndFound(a, T \o N)']_vars

(* C7 amended: the same, for every non-empty N none of whose turns occurs
   in T. *)
C7_ExtendThenLookup ==
    [][\A a \in Target(lastOp'.id), T \in TurnSeqs, N \in NewTurns :
          (/\ lastOp'.op = "Update"
           /\ T = entries[a].Messages /\ N = lastOp'.messages
           /\ Len(T) >= 1 /\ Len(N) >= 1
           /\ Disjoint(T, N))
              => KeyedAndFound(a, T \o N)']_vars

C7_Witness ==
    /\ lastOp.op = "Update" /\ Len(lastOp.messages) = 1
    /\ Target(lastOp.id) # {}
    /\ \A a \in Target(lastOp.id) :
          /\ Len(entries[a].Messages) = 2
          /\ entries[a].Messages[2] = lastOp.messages[1]
          /\ entries[a].Messages[1] # lastOp.messages[1]
          /\ KeyedAndFound(a, entries[a].Messages)
    /\ Cardinality(Stored) = 2

(* C8: a second Extend(S, N) right after Extend(S, N) leaves every stored
   turn sequence, the keys of the table and the message index as the first
   call left them. *)
C8_ExtendIdempotent ==
    [][(/\ lastOp.op = "Update" /\ lastOp'.op = "Update"
        /\ lastOp'.id = lastOp.id /\ lastOp'.messages = lastOp.messages)
          => /\ conversations' = conversations
             /\ messageIndex' = messageIndex
             /\ Len(entries') = Len(entries)
             /\ \A a \in 1..Len(entries) : entries'[a].Messages = entries[a].Messages]_vars

C8_Witness ==
    /\ lastOp.op = "Update" /\ Len(lastOp.messages) = 2
    /\ Target(lastOp.id) # {}
    /\ \A a \in Target(lastOp.id) :
          /\ Len(entries[a].Messages) = 3
          /\ SubSeq(entries[a].Messages, 2, 3) = lastOp.messages
          /\ Disjoint(<<entries[a].Messages[1]>>, lastOp.messages)
          /\ HasExact(entries[a].Messages)

(* C9: once the eviction sweep has run, an entry whose lastAccessed is older
   than the retention window is out of reach of Lookup and no list of the
   message index references it. *)
C9_Eviction ==
    lastOp.op = "Sweep"
        => \A a \in 1..Len(entries) : Expired(a) => (a \notin Stored /\ ~Referenced(a))

----------------------------------------------------------------------------
(* C1: every request of one conversation is resolved to the session the
   first request created, and one backend session is created in all. *)
C1_OneSession ==
    /\ \A i \in 1..Len(used) : used[i] = used[1]
    /\ sessions <= 1

----------------------------------------------------------------------------
(* Vocabulary of the translator properties *)

RECURSIVE ConcatContent(_)
ConcatContent(sent) ==
    IF Len(sent) = 0 THEN <<>>
    ELSE Head(sent).Content \o ConcatContent(Tail(sent))

WithContent(sent) == {i \in 1..Len(sent) : sent[i].Content # <<>>}

(* C10: in streaming mode, while every event read carries no explicit delta
   and a cumulative text that extends the one before, the event just read
   makes the Translator send exactly the part of its text beyond the
   previous text (no content when that part is empty), and the content sent
   so far adds up to the text of the last event. *)
C10_DeltaReconstruction ==
    [][(stream /\ nread' = nread + 1 /\ cumulative')
          => \E sent \in SeqsUpTo({rawChunks'[i] : i \in 1..Len(rawChunks')}, 2) :
                /\ rawChunks' = rawChunks \o sent
                /\ ConcatContent(sent) = SubSeq(prevContent', Len(prevContent) + 1,
                                                Len(prevContent'))
                /\ Cardinality(WithContent(sent)) <= 1
                /\ ConcatContent(rawChunks') = prevContent']_vars

C10_Witness ==
    /\ stream /\ cumulative /\ nread = 3
    /\ prevContent = <<"a", "b">>
    /\ Len(rawChunks) = 3
    /\ rawChunks[1].Content = <<"a">>
    /\ rawChunks[2].Content = <<>>
    /\ rawChunks[3].Content = <<"b">>

(* C11: in streaming mode, an event that carries no explicit delta and whose
   cumulative text is non-empty and does not have the accumulated text as a
   prefix -- shorter, equally long or longer -- is sent as one chunk whose
   delta is the whole cumulative text of the event. *)
C11_DivergentDelta ==
    [][\A longCatResp \in LongCatResponses :
          (/\ stream
           /\ ReadEvent(longCatResp)
           /\ longCatResp.Delta = <<>>
           /\ longCatResp.Content # <<>>
           /\ ~IsPrefix(p.accumulated, longCatResp.Content))
            => /\ Len(rawChunks') > Len(rawChunks)
               /\ rawChunks'[Len(rawChunks) + 1].Content = longCatResp.Content]_vars

----------------------------------------------------------------------------
(* Vocabulary of the pipeline properties *)

Types(frames) == [i \in 1..Len(frames) |-> frames[i].Type]

Count(frames, type) == Cardinality({i \in 1..Len(frames) : frames[i].Type = type})

(* message_start, content_block_start, content_block_delta*,
   content_block_stop, message_delta, message_stop *)
Envelope(frames) ==
    LET n == Len(frames)
    IN /\ n >= 5
       /\ frames[1].Type = "message_start"
       /\ frames[2].Type = "content_block_start"
       /\ \A i \in 3..(n - 3) : frames[i].Type = "content_block_delta"
       /\ frames[n - 2].Type = "content_block_stop"
       /\ frames[n - 1].Type = "message_delta"
       /\ frames[n].Type = "message_stop"

(* C12: when a backend stream has ended without a pipeline error and the
   streaming handler of format B has returned, the event types it wrote are
   message_start, content_block_start, zero or more content_block_delta,
   content_block_stop, message_delta, message_stop, in that order, each of
   the five non-delta events once. *)
C12_Envelope ==
    (format = "B" /\ stream /\ tpc = "done" /\ hpc = "ok") => Envelope(written)

(* C13: when the generic stream has ended having delivered no content delta
   (no chunk at all, or only chunks with empty content) and the streaming
   handler of format B has returned, it has written the complete envelope,
   each event once, with the fallback text in its one content_block_delta. *)
C13_FallbackEnvelope ==
    (/\ format = "B" /\ stream /\ tpc = "done" /\ hpc = "ok"
     /\ \A i \in 1..Len(rawChunks) : rawChunks[i].Content = <<>>)
        => /\ Envelope(written)
           /\ Len(written) = 6
           /\ written[3].Text = FallbackText

(* C14: once the streaming handler of format A has returned without error,
   the sentinel frame [DONE] has been written exactly once and is the last
   frame written. *)
C14_Sentinel ==
    (format = "A" /\ stream /\ hpc = "ok")
        => /\ Count(written, "[DONE]") = 1
           /\ written[Len(written)].Type = "[DONE]"

C14_Witness ==
    /\ format = "A" /\ stream /\ hpc = "ok"
    /\ Len(written) = 3
    /\ written[1].Type = "data" /\ written[1].Chunk.Content = <<"a">>
    /\ written[2].Type = "data" /\ written[2].Chunk.FinishReason = "stop"
    /\ written[3].Type = "[DONE]"

(* The text of the response object a non-streaming handler wrote *)
ResponseText(frame) == IF format = "A" THEN frame.Content ELSE frame.Text

(* The backend signalled completion with "stop" on the last event read *)
Completed == tpc = "done" /\ p.finishReason = "stop"

(* C15: for a non-streaming request whose events carried cumulative texts,
   each extending the one before, the last one signalling completion, the
   one response object written holds the whole text: the last cumulative
   text. *)
C15_Aggregation ==
    (~stream /\ hpc = "ok" /\ Completed /\ cumulative)
        => /\ Len(written) = 1
           /\ written[1].Type = "response"
           /\ ResponseText(written[1]) = prevContent

(* The usage fields a format writes for a token usage *)
UsageOf(tokens) ==
    IF format = "A"
    THEN [PromptTokens |-> tokens.PromptTokens,
          CompletionTokens |-> tokens.CompletionTokens,
          TotalTokens |-> tokens.TotalTokens]
    ELSE ClaudeUsage(tokens.PromptTokens, tokens.CompletionTokens)

(* C16: the usage fields of the one response object of a non-streaming
   request equal the last token usage the backend marked as populated
   during the stream. *)
C16_Usage ==
    (~stream /\ hpc = "ok" /\ tpc = "done" /\ lastTokens.HasTokens)
        => /\ Len(written) = 1
           /\ written[1].Type = "response"
           /\ written[1].Usage = UsageOf(lastTokens)

(* C17: when the backend stream has ended and the chunk queue closes without
   any content having arrived, the non-streaming handler writes one response
   object whose text is the fixed
   fallback text. *)
C17_Fallback ==
    (~stream /\ tpc = "done" /\ hpc = "ok" /\ handler.fullContent = <<>>)
        => /\ Len(written) = 1
           /\ written[1].Type = "response"
           /\ ResponseText(written[1]) = FallbackText

(* The stop reason of format B for a generic finish reason *)
StopReasonTable ==
    [reason \in FinishReasons |->
        IF reason = "length" THEN "max_tokens"
        ELSE IF reason = "content_filter" THEN "refusal"
        ELSE "end_turn"]

(* C18: mapToClaudeStopReason maps stop to end_turn, length to max_tokens,
   content_filter to refusal and every other or unset reason to end_turn,
   so its result is one of end_turn, max_tokens, refusal; and the
   message_delta that the relay of format B makes of a finish chunk carries
   the stop reason of the table for the chunk's finish reason. *)
C18_StopReason ==
    [][/\ \A reason \in FinishReasons :
             /\ mapToClaudeStopReason(reason) = StopReasonTable[reason]
             /\ mapToClaudeStopReason(reason) \in {"end_turn", "max_tokens", "refusal"}
       /\ (/\ format = "B" /\ rpc = "send" /\ rpc' = "run"
           /\ rawChunks[nrelayed].Content = <<>>
           /\ rawChunks[nrelayed].FinishReason # "")
            => /\ Len(chunks') = Len(chunks) + 1
               /\ chunks'[Len(chunks')].Type = "message_delta"
               /\ chunks'[Len(chunks')].StopReason
                      = StopReasonTable[rawChunks[nrelayed].FinishReason]]_vars

C18_Witness ==
    /\ format = "B"
    /\ Len(chunks) = 2
    /\ chunks[1].Type = "message_delta" /\ chunks[1].StopReason = "max_tokens"
    /\ chunks[2].Type = "message_delta" /\ chunks[2].StopReason = "refusal"
    /\ rawChunks[1].FinishReason = "length"
    /\ rawChunks[2].FinishReason = "content_filter"

(* The finish_reason format A wrote for the response: that of the response
   object, or of the last chunk frame before the sentinel. *)
WrittenFinishReason ==
    IF stream THEN written[Len(written) - 1].Chunk.FinishReason
    ELSE written[1].FinishReason

(* C19: the finish_reason format A writes for a finished response is stop,
   length or content_filter: an unset or any other generic reason is
   written as stop. *)
C19_FinishReason ==
    (format = "A" /\ tpc = "done" /\ hpc = "ok")
        => WrittenFinishReason \in {"stop", "length", "content_filter"}

(* C20: once ProcessStream has read a payload it cannot parse, the handler
   does not return as if the request had succeeded: under every
   interleaving of translator, relay and handler it returns an error. *)
C20_MalformedSurfaced ==
    tpc = "error" => hpc # "ok"

(* C21: with a consumer that never drains the relay's output queue, a send
   that finds the queue full ends by the timer: the relay puts the error
   "timeout sending chunk" on the error queue and returns; and the relay
   never stays in a send forever. *)
C21_Backpressure ==
    /\ [][(rpc = "send" /\ Len(chunks) = ChunkBuffer /\ rpc' # rpc)
             => /\ errs' = <<"timeout sending chunk">>
                /\ rpc' = "returned"
                /\ chunks' = chunks]_vars
    /\ (rpc = "send" ~> rpc # "send")

C21_Witness ==
    /\ Len(chunks) = ChunkBuffer
    /\ nrelayed = ChunkBuffer + 1
    /\ rpc = "returned"
    /\ errs = <<"timeout sending chunk">>

----------------------------------------------------------------------------
(* The lock of cm.mu each operation of the resolver holds while it runs *)
LockHeld(op) ==
    CASE op = "Find" -> "RLock"
      [] op \in {"Set", "Update", "Echo", "Sweep"} -> "Lock"
      [] OTHER -> "none"

(* C22: every step that writes the resolver's shared state -- an entry's
   lastAccessed included -- is taken by an operation that holds the
   exclusive lock; a Lookup, which holds the read lock only, writes no
   entry. *)
C22_WritersExclusive ==
    [][<<entries, conversations, messageIndex>>' # <<entries, conversations, messageIndex>>
          => LockHeld(lastOp'.op) = "Lock"]_vars

----------------------------------------------------------------------------
(* The text a written frame carries, if any *)
FrameText(frame) ==
    IF frame.Type = "data" THEN frame.Chunk.Content
    ELSE IF frame.Type = "content_block_delta" THEN frame.Text
    ELSE <<>>

IsDelta(text) == text # <<>> /\ text # FallbackText

(* The content deltas the translator produced, and those written to the
   client (the handler's own fallback text is not a delta of the stream) *)
ProducedDeltas == SelectSeq([i \in 1..Len(rawChunks) |-> rawChunks[i].Content], IsDelta)

WrittenDeltas == SelectSeq([i \in 1..Len(written) |-> FrameText(written[i])], IsDelta)

(* C23: within a streaming request, at every moment the content deltas
   written to the client are a prefix of the content deltas the translator
   produced, in the same order: the relay queue duplicates, skips and
   reorders none. *)
C23_InOrder ==
    stream => IsPrefix(WrittenDeltas, ProducedDeltas)

C23_Witness ==
    /\ stream
    /\ hpc = "ok"
    /\ ProducedDeltas = <<(<<"a">>), (<<"b">>)>>
    /\ WrittenDeltas = ProducedDeltas

----------------------------------------------------------------------------
(* C24: two turn sequences of a request that differ in a role, a content,
   the order or the count have different fingerprints (sha256 taken as
   injective), and the fingerprint of a sequence computed twice is the
   same. *)
C24_Distinct ==
    fpOutputs # <<>>
        => /\ fpInputs[1] # fpInputs[2] => fpOutputs[1] # fpOutputs[2]
           /\ fpOutputs[1] = fpOutputs[3]

(* C25: in every reachable state of the gateway, whatever requests came in,
   no table entry has an empty turn sequence and the empty string, which
   GenerateFingerprint returns for an empty sequence, is not a key of the
   table. *)
C25_NoEmptyFingerprint ==
    /\ "" \notin DOMAIN conversations
    /\ \A a \in Stored : entries[a].Messages # <<>>

----------------------------------------------------------------------------
(* C26: when the backend stream has ended without any content produced and
   without a completion signal, the translator has emitted a terminal
   chunk, with empty content and finish reason "stop", before closing its
   output. *)
C26_TerminalEvent ==
    (/\ tpc = "done"
     /\ p.finishReason = ""
     /\ \A i \in 1..Len(rawChunks) : rawChunks[i].Content = <<>>)
        => /\ Len(rawChunks) > 0
           /\ rawChunks[Len(rawChunks)].Content = <<>>
           /\ rawChunks[Len(rawChunks)].FinishReason = "stop"

(* C27: once the translator's finishReason is not empty, no later event
   makes it empty again, and every chunk emitted from then on carries a
   finish reason that is not empty. *)
C27_StickyFinishReason ==
    [][p.finishReason # ""
          => /\ p'.finishReason # ""
             /\ \A i \in (Len(rawChunks) + 1)..Len(rawChunks') :
                    rawChunks'[i].FinishReason # ""]_vars

C27_Witness ==
    /\ tpc = "scan"
    /\ nread = 3
    /\ p.finishReason = "length"
    /\ Len(rawChunks) = 3
    /\ rawChunks[1].FinishReason = "length"
    /\ rawChunks[2].FinishReason = "length"
    /\ rawChunks[3].FinishReason = "length"
    /\ rawChunks[3].Content # <<>>

(* C28: after the translator has processed an event that signals completion
   -- lastOne set, or contentStatus FINISHED --, whatever finish reason the
   event carries, the goroutine is over: it reads no further event and
   emits no further chunk. *)
C28_StopOnCompletion ==
    [][\A longCatResp \in LongCatResponses :
          (/\ ReadEvent(longCatResp)
           /\ longCatResp.LastOne \/ longCatResp.ContentStatus = "FINISHED")
            => tpc' = "done"]_vars

----------------------------------------------------------------------------
(* The prefix candidates of a lookup that pass the echo filter *)
Survivors(turns) == {a \in PrefixCandidates(turns) : EchoIs(a, TailFirst(turns))}

(* C29: when a Lookup finds no exact match and several of its prefix
   candidates pass the echo filter, it returns one of those survivors, one
   whose lastAccessed (before the Lookup) is the latest among them; a
   candidate that did not pass the filter is not returned. *)
C29_TieBreak ==
    [][(/\ lastOp'.op = "Find"
        /\ Len(lastOp'.messages) >= 2
        /\ ~HasExact(lastOp'.messages)
        /\ Cardinality(Survivors(lastOp'.messages)) > 1)
          => /\ lastOp'.found
             /\ \E a \in Survivors(lastOp'.messages) :
                   /\ entries[a].ConversationID = lastOp'.id
                   /\ \A other \in Survivors(lastOp'.messages) :
                          entries[a].LastAccessed >= entries[other].LastAccessed]_vars

----------------------------------------------------------------------------
(* The primary table is keyed by the fingerprint of the stored turns *)

KeyedByFingerprint ==
    \A k \in DOMAIN conversations :
        k = GenerateFingerprint(entries[conversations[k]].Messages)

(* the entries whose turns the step has lengthened *)
Extended ==
    {a \in DOMAIN entries :
        /\ a \in DOMAIN entries'
        /\ Len(entries'[a].Messages) > Len(entries[a].Messages)}

(* C30: after any sequence of Register, Extend, Lookup and eviction sweeps,
   every key of the primary table is the fingerprint of the turns of the
   entry stored under it; and after an Extend that appended turns, the
   entry is no longer stored under its old fingerprint. *)
C30_KeyInvariant ==
    /\ []KeyedByFingerprint
    /\ [][\A a \in Extended :
            LET oldFingerprint == GenerateFingerprint(entries[a].Messages)
            IN \/ oldFingerprint \notin DOMAIN conversations'
               \/ conversations'[oldFingerprint] # a]_vars

(* an Extend has appended turns to an entry that is stored in the table,
   beside another stored entry: the entry holds more turns than a Register
   stores, and they end with the turns of the Extend *)
C30_Witness ==
    /\ lastOp.op = "Update"
    /\ Cardinality(DOMAIN conversations) >= 2
    /\ \E k \in DOMAIN conversations :
          LET stored == entries[conversations[k]].Messages
          IN /\ entries[conversations[k]].ConversationID = lastOp.id
             /\ Len(stored) > MaxNew
             /\ Len(lastOp.messages) > 0
             /\ Len(lastOp.messages) < Len(stored)
             /\ SubSeq(stored, Len(stored) - Len(lastOp.messages) + 1, Len(stored))
                  = lastOp.messages

----------------------------------------------------------------------------
(* Frame of Extend and of RecordAssistantEcho *)

AllPresent(new, existing) ==
    \A i \in 1..Len(new) : \E j \in 1..Len(existing) : new[i] = existing[j]

(* the step changes no entry but the given ones, and of those only the time
   of the last access *)
OnlyAccessTimeOf(T) ==
    /\ Len(entries') = Len(entries)
    /\ \A a \in 1..Len(entries) :
          /\ entries'[a].ConversationID = entries[a].ConversationID
          /\ entries'[a].Messages = entries[a].Messages
          /\ entries'[a].LastOriginal = entries[a].LastOriginal
          /\ a \notin T => entries'[a].LastAccessed = entries[a].LastAccessed

(* C31: an Extend whose turns are all present in the stored turns of the
   entry, or whose session id no stored entry has, leaves the keys of the
   primary table, every entry's turns and echo and the secondary index
   unchanged; at most the lastAccessed of the located entry changes. *)
C31_ExtendNoop ==
    [][(/\ lastOp'.op = "Update"
        /\ \A a \in Target(lastOp'.id) : AllPresent(lastOp'.messages, entries[a].Messages))
          => /\ conversations' = conversations
             /\ messageIndex' = messageIndex
             /\ OnlyAccessTimeOf(Target(lastOp'.id))]_vars

(* an Extend with a turn the entry already held has refreshed the entry's
   lastAccessed, an hour or more after the entry was registered beside
   another one *)
C31_Witness ==
    /\ lastOp.op = "Update"
    /\ Len(lastOp.messages) = 1
    /\ now > 0
    /\ Cardinality(Stored) = 2
    /\ \E a \in Target(lastOp.id) :
          /\ entries[a].Messages = lastOp.messages
          /\ entries[a].LastAccessed = now
          /\ \E other \in Stored \ {a} : entries[other].LastAccessed < now

(* C32: RecordAssistantEcho replaces the echo of the entry with the given
   session id by the given value and changes nothing else but that entry's
   lastAccessed: the keys of the table, every entry's turns, every other
   entry's echo and the secondary index stay; for an unknown session id the
   whole state stays. *)
C32_EchoFrame ==
    [][lastOp'.op = "Echo"
          => /\ conversations' = conversations
             /\ messageIndex' = messageIndex
             /\ Len(entries') = Len(entries)
             /\ Target(lastOp'.id) = {} => entries' = entries
             /\ \A a \in 1..Len(entries) :
                   /\ entries'[a].ConversationID = entries[a].ConversationID
                   /\ entries'[a].Messages = entries[a].Messages
                   /\ IF a \in Target(lastOp'.id)
                      THEN entries'[a].LastOriginal = lastOp'.messages
                      ELSE entries'[a] = entries[a]]_vars

(* an echo has been recorded for a stored entry, beside a stored entry that
   keeps another echo *)
C32_Witness ==
    /\ lastOp.op = "Echo"
    /\ lastOp.messages # <<>>
    /\ \E a \in Target(lastOp.id) :
          /\ entries[a].LastOriginal = lastOp.messages
          /\ \E other \in Stored \ {a} :
                /\ entries[other].LastOriginal # <<>>
                /\ entries[other].LastOriginal # lastOp.messages

----------------------------------------------------------------------------
(* Errors in format B *)

(* the handler takes a non-nil error from the error queue *)
TakesError ==
    /\ hpc = "run"
    /\ errs # <<>>
    /\ Head(errs) # "nil"
    /\ errs' = Tail(errs)

(* C33: when the streaming handler of format B receives a non-nil error
   from the error queue, it writes exactly one error event, writes no frame
   after it, and returns that error. *)
C33_ErrorEvent ==
    /\ [][(format = "B" /\ stream /\ TakesError)
            => /\ written' = Append(written, sendErrorEvent)
               /\ hpc' = "err"]_vars
    /\ [][(format = "B" /\ stream /\ hpc = "err")
            => /\ written' = written
               /\ hpc' = "err"]_vars
    /\ []((format = "B" /\ stream /\ hpc = "err")
            => /\ Count(written, "error") = 1
               /\ written[Len(written)].Type = "error")

(* the handler has returned an error after it had written the start of a
   message and a content delta *)
C33_Witness ==
    /\ format = "B" /\ stream /\ hpc = "err"
    /\ Len(written) >= 4
    /\ written[1].Type = "message_start"
    /\ written[3].Type = "content_block_delta"
    /\ written[Len(written)].Type = "error"

(* The last message_delta event written to the client *)
DeltaFrames == {i \in 1..Len(written) : written[i].Type = "message_delta"}

FinalMessageDelta == written[CHOOSE i \in DeltaFrames : \A j \in DeltaFrames : j <= i]

(* C34: in every stream of format B that ends without a pipeline error, the
   message_delta event written to the client carries the stop reason of the
   table for the final finishReason of ProcessStream and the token usage
   ProcessStream last recorded as populated, also when the last backend
   event carries new content together with the finish reason. *)
C34_FinalDelta ==
    (format = "B" /\ stream /\ tpc = "done" /\ hpc = "ok")
        => /\ DeltaFrames # {}
           /\ FinalMessageDelta.StopReason = StopReasonTable[p.finishReason]
           /\ lastTokens.HasTokens
                => FinalMessageDelta.Usage
                      = ClaudeUsage(lastTokens.PromptTokens, lastTokens.CompletionTokens)

----------------------------------------------------------------------------
(* The goroutines of a request *)

(* ProcessStream is over: it has left its loop and no chunk it sends is
   still waiting to be received *)
TranslatorOver == tpc \in {"done", "error"} /\ nrelayed = Len(rawChunks)

(* ProcessStream waits in a send on its unbuffered channel whose only
   receiver, ConvertResponse, has returned *)
Stranded == rpc = "returned" /\ nrelayed < Len(rawChunks)

(* C35: after the relay has stopped because of the send timeout, or the
   handler has returned early on an error, no goroutine of the request
   stays blocked for ever in a send: ProcessStream is never left in a send
   that nobody will receive. *)
C35_NoStranded == ~Stranded

(* all three goroutines of the request are over and the handler has
   returned *)
RequestOver ==
    /\ TranslatorOver
    /\ rpc = "returned"
    /\ hpc \in {"ok", "err"}

(* C36: once the backend stream has ended (end of input, [DONE] or a
   completion event), with a client that keeps draining and under fair
   scheduling, ProcessStream, the relay and the handler all terminate and
   the handler returns, in streaming and in non-streaming mode. *)
C36_Termination == (tpc = "done") ~> RequestOver

(* the request is over after content chunks went through the whole
   pipeline, in non-streaming mode *)
C36_Witness ==
    /\ RequestOver
    /\ tpc = "done"
    /\ ~stream
    /\ hpc = "ok"
    /\ nrelayed >= 1
    /\ Len(written) = 1

(* the same in streaming mode *)
C36_WitnessStream ==
    /\ RequestOver
    /\ tpc = "done"
    /\ stream
    /\ hpc = "ok"
    /\ nrelayed >= 2
    /\ Len(written) >= 3

----------------------------------------------------------------------------
(* C37: after any sequence of Register, Extend and eviction sweeps, every
   entry referenced from a list of the secondary index is an entry stored
   in the primary table. *)
C37_IndexConsistent ==
    \A msgHash \in DOMAIN messageIndex :
        \A i \in 1..Len(messageIndex[msgHash]) : messageIndex[msgHash][i] \in Stored

(* C38: whenever a Lookup of two or more turns returns found, the first
   stored turn of the returned entry is the first turn of the query: a
   query never resolves to the session of an entry with which it shares no
   turn. *)
C38_NoCrossMatch ==
    (Looked /\ Len(lastOp.messages) >= 2 /\ lastOp.found)
        => entries[AddrOf(lastOp.id)].Messages[1] = lastOp.messages[1]

----------------------------------------------------------------------------
(* C39: two concurrent requests that carry the same turn history, for which
   no entry is registered yet, end up using the same backend session id
   under every interleaving of their steps, and only one backend session is
   created for that history. *)
C39_AtomicFindOrCreate ==
    \A r1, r2 \in 1..MaxConcurrent :
        (/\ r1 # r2
         /\ reqs[r1].pc = "done" /\ reqs[r2].pc = "done"
         /\ reqs[r1].messages = reqs[r2].messages)
            => /\ reqs[r1].conversationID = reqs[r2].conversationID
               /\ Cardinality({entries[a].ConversationID :
                                  a \in {b \in 1..Len(entries) :
                                            entries[b].Messages = reqs[r1].messages}}) = 1

====
